---- MODULE Spec2Model ----
(***************************************************************************)
(* Model of frontend/src/Agent.jsx: the Agent component's run lifecycle    *)
(* (runAgent, its three timeline timers and the continuation after the     *)
(* awaited remote call), Reset, restoreSession, toggleModel, the feedback   *)
(* flow (ModelFeedbackBox.handle, submitFeedback) and the two capped        *)
(* history lists with their localStorage slots (loadFromLS, saveToLS and    *)
(* the JSON text between them).                                             *)
(*                                                                         *)
(* JavaScript runs every handler, timer callback and await-continuation to  *)
(* completion, so each of them is one action.  A handler reads the React    *)
(* state of the render it was created in: what an async handler reads       *)
(* after its await (query, selectedModels, sessions, feedbackHistory) is    *)
(* therefore the value captured when the handler was called, kept here in   *)
(* the record of the call.                                                  *)
(***************************************************************************)
EXTENDS Integers, Sequences, FiniteSets, TLC

\* ------------------------------------------------------------------ bounds
\* Run lifecycle (Spec, SpecHandler): runAgent calls accepted; Spec: edits
\* of the inputs.
MaxRuns == 2
MaxEdits == 2
\* runAgent as a function (SpecHandler): edits of the inputs.
HandlerEdits == 1
\* restoreSession as a function (SpecRestore): runAgent calls accepted, edits
\* of the inputs.
RestoreRuns == 1
RestoreEdits == 1
\* Whole component (SpecAgent): runAgent calls accepted, edits of the inputs,
\* feedback submissions.
AgentRuns == 1
AgentEdits == 1
AgentFeedback == 1
\* The feedback boxes (SpecFeedback): Send clicks, Demo Mode clicks.
LiveRuns == 1              \* runs, edits and Sends when every call is taken to its end
LiveEdits == 2
LiveFeedback == 1
FeedbackSends == 2
FeedbackEdits == 1
\* Clock ticks (SpecFeedback).
MaxTime == 1
\* A capped list of any capacity (SpecStore): capacities 1..MaxCap, up to
\* MaxCap + MaxExtra inserts.
MaxCap == 5
MaxExtra == 3
\* Page loads after the first (SpecStore, SpecLoad).
MaxVisits == 1

\* ------------------------------------------------------- program constants
SessionCap == 20
FeedbackCap == 100

\* defaultModels (names only; the specialty is display data).
defaultModels == <<"Model A", "Model B", "Model C">>
ModelNames == {defaultModels[i] : i \in 1..Len(defaultModels)}

\* A text is a sequence of characters, " " being whitespace.  Texts the user
\* types into the query box and into a feedback box.
Queries == {<<" ">>, <<"a">>, <<" ", "b">>}
\* Catalog entries the user toggles.
ToggledNames == {"Model A", "Model B"}
FeedbackTexts == {<<" ">>, <<" ", "g">>}

\* --------------------------------------------------------------- helpers
Min(S) == CHOOSE x \in S : \A y \in S : x <= y

RECURSIVE TrimStart(_)
TrimStart(s) == IF s # <<>> /\ Head(s) = " " THEN TrimStart(Tail(s)) ELSE s

RECURSIVE TrimEnd(_)
TrimEnd(s) ==
    IF s # <<>> /\ s[Len(s)] = " " THEN TrimEnd(SubSeq(s, 1, Len(s) - 1)) ELSE s

\* String.prototype.trim
NoTrim(s) == s
Trim(s) == TrimEnd(TrimStart(s))

\* !query.trim()  /  !feedback?.trim()  /  !val
IsBlankUntrimmed(s) == s = <<>>
IsBlank(s) == Trim(s) = <<>>

\* Array.prototype.slice(0, n)
Slice0(s, n) == SubSeq(s, 1, IF Len(s) < n THEN Len(s) ELSE n)

\* [item, ...list].slice(0, cap)
InsertFrontNoCut(item, list, cap) == <<item>> \o list
InsertFrontKeepOld(item, list, cap) ==
    IF Len(list) < cap THEN <<item>> \o list ELSE list
InsertFront(item, list, cap) == Slice0(<<item>> \o list, cap)

\* cur.includes(name) ? cur.filter(n => n !== name) : [...cur, name]
Includes(cur, name) == \E i \in 1..Len(cur) : cur[i] = name
Toggled(cur, name) ==
    IF Includes(cur, name)
    THEN SelectSeq(cur, LAMBDA n : n # name)
    ELSE Append(cur, name)

\* mockRunAgent's value: the chosen catalog entries (all when none chosen)
\* and an insight text built from the query.
mockRunAgent(q, chosen) ==
    [ models |-> IF Len(chosen) # 0
                 THEN SelectSeq(defaultModels, LAMBDA m : Includes(chosen, m))
                 ELSE defaultModels,
      synthesized_insight |-> q ]

\* What runAgentAPI's res.json() can yield: the backend's answer for the
\* request, of the shape the mock has.
runAgentAPI(q, chosen) == { mockRunAgent(q, chosen) }

\* Messages of a rejected run: runAgentAPI's Error, or an error without one.
RunFailures == {"/run-agent failed: HTTP 500", ""}
\* e?.message || "Something went wrong."
ErrorText(msg) == IF msg = "" THEN "Something went wrong." ELSE msg

ValidationMessage == "Please enter a question or request."

\* ------------------------------------------------------------------ JSON
\* A JSON text is a sequence of tokens.  An entry of a history list (strings
\* and arrays of strings, and the response JSON itself) is one token.
LBracket == [t |-> "[", v |-> <<>>]
RBracket == [t |-> "]", v |-> <<>>]
Comma == [t |-> ",", v |-> <<>>]
NullToken == [t |-> "null", v |-> <<>>]
ValueToken(e) == [t |-> "value", v |-> e]

\* A JavaScript value as far as the history lists care: an array (val its
\* entries), null, or any other value.
ArrayValue(entries) == [kind |-> "array", val |-> entries]
NullValue == [kind |-> "null", val |-> <<>>]
OtherValue == [kind |-> "other", val |-> <<>>]
SyntaxError == [kind |-> "throws", val |-> <<>>]

\* JSON.stringify(list): "[" e1 "," e2 ... "]"
JSONstringify(list) ==
    IF list = <<>> THEN <<LBracket, RBracket>>
    ELSE <<LBracket>>
         \o [i \in 1..(2 * Len(list) - 1) |->
                IF i % 2 = 1 THEN ValueToken(list[(i + 1) \div 2]) ELSE Comma]
         \o <<RBracket>>

\* The elements between the brackets of an array text: values separated by
\* commas.
WellSeparated(inner) ==
    \/ inner = <<>>
    \/ /\ Len(inner) % 2 = 1
       /\ \A i \in 1..Len(inner) :
             IF i % 2 = 1 THEN inner[i].t = "value" ELSE inner[i] = Comma

\* JSON.parse(text): the value, or a SyntaxError.
ParseReversed(text) ==
    LET inner == SubSeq(text, 2, Len(text) - 1)
        n == (Len(inner) + 1) \div 2
    IN ArrayValue([i \in 1..n |-> inner[2 * (n + 1 - i) - 1].v])
JSONparse(text) ==
    IF text = <<NullToken>> THEN NullValue
    ELSE IF Len(text) = 1 /\ text[1].t = "value" THEN OtherValue
    ELSE IF /\ Len(text) >= 2
            /\ text[1] = LBracket
            /\ text[Len(text)] = RBracket
            /\ WellSeparated(SubSeq(text, 2, Len(text) - 1))
    THEN LET inner == SubSeq(text, 2, Len(text) - 1)
         IN ArrayValue([i \in 1..((Len(inner) + 1) \div 2) |-> inner[2 * i - 1].v])
    ELSE SyntaxError

\* ---------------------------------------------------------- localStorage
\* A slot is absent or holds a text.
AbsentSlot == [kind |-> "absent", val |-> <<>>]
\* localStorage.setItem(k, JSON.stringify(v)): the slot afterwards.
saveToLS(v) == [kind |-> "json", val |-> JSONstringify(v)]
\* try { localStorage.setItem(k, JSON.stringify(v)) } catch {}: the slot after
\* saveToLS(k, v) when setItem throws (throws = TRUE: the slot keeps what it
\* held and nothing is reported) and when it does not.
Written(slot, v, throws) == IF throws THEN slot ELSE saveToLS(v)
\* try { JSON.parse(localStorage.getItem(k)) ?? fb } catch { fb }: getItem
\* gives null for an absent slot and JSON.parse(null) is null.
loadFromLS(slot, fb) ==
    LET parsed == IF slot.kind = "absent" THEN NullValue ELSE JSONparse(slot.val)
    IN IF parsed.kind \in {"throws", "null"} THEN fb ELSE parsed

\* Entries written by earlier visits: ids are timestamps before this visit's
\* clock starts (0), newest first.
OldSnapshot(i) ==
    [ id |-> 0 - i, when |-> 0 - i, query |-> <<"a">>,
      selectedModels |-> <<"Model A", "Model B">>,
      response |-> mockRunAgent(<<"a">>, <<"Model A", "Model B">>) ]
OldFeedback(i) ==
    [ id |-> 0 - i, when |-> 0 - i, model |-> "Model A", feedback |-> <<"g">> ]
OldSessions(n) == [i \in 1..n |-> OldSnapshot(i)]
\* An entry an earlier visit's list held and dropped when it was full.
EvictedSnapshot ==
    [ id |-> 0 - (SessionCap + 1), when |-> 0 - (SessionCap + 1),
      query |-> <<"c">>, selectedModels |-> <<"Model C">>,
      response |-> mockRunAgent(<<"c">>, <<"Model C">>) ]
OldFeedbacks(n) == [i \in 1..n |-> OldFeedback(i)]

\* ------------------------------------------------------------------ state
VARIABLES
    query, selectedModels, useMock,          \* inputs
    loading, error, result, timeline,        \* run state; result is <<>> (null) or <<data>>
    sessions, feedbackHistory, submitting,   \* history lists, per-model pending flags
    lsSessions, lsFeedback,                  \* the two localStorage slots
    now,                                     \* Date.now()
    runs,                                    \* the runAgent calls made, in order
    fbCalls,                                 \* submitFeedback calls awaiting sendFeedbackAPI
    alerted,                                 \* the last alert() shown, <<>> when none
    runsLeft, editsLeft, feedbackLeft,       \* what the bounds still allow
    store, storeCap, storeLog,               \* a capped list of any capacity, and what was put in
    storeShape, storeSlot,                   \* the kind of value the list state holds; its slot
    storeVisits,                             \* page loads so far: what had been put in by then
    setItemThrows                            \* localStorage.setItem throws (quota, storage off)

inputVars == <<query, selectedModels, useMock>>
runVars == <<loading, error, result, timeline>>
sessionVars == <<sessions, lsSessions>>
feedbackVars == <<feedbackHistory, lsFeedback, submitting, fbCalls, alerted,
                  feedbackLeft>>
storeVars == <<store, storeCap, storeLog, storeShape, storeSlot, storeVisits,
               setItemThrows>>
vars == <<query, selectedModels, useMock, loading, error, result, timeline,
          sessions, feedbackHistory, submitting, lsSessions, lsFeedback, now,
          runs, fbCalls, alerted, runsLeft, editsLeft, feedbackLeft,
          store, storeCap, storeLog, storeShape, storeSlot, storeVisits,
          setItemThrows>>

\* Slot contents the component itself can have left behind: arrays, so the
\* two list states below are the entries of the array loaded.
SessionSlots == {AbsentSlot, saveToLS(OldSessions(SessionCap))}
FeedbackSlots == {AbsentSlot, saveToLS(OldFeedbacks(FeedbackCap))}

\* The useState initialisers.
InitAgent ==
    /\ query = <<>>
    /\ selectedModels = defaultModels
    /\ useMock = TRUE
    /\ loading = FALSE
    /\ error = ""
    /\ result = <<>>
    /\ timeline = <<>>
    /\ sessions = loadFromLS(lsSessions, ArrayValue(<<>>)).val
    /\ feedbackHistory = loadFromLS(lsFeedback, ArrayValue(<<>>)).val
    /\ submitting = [m \in ModelNames |-> FALSE]
    /\ now = 0
    /\ runs = <<>>
    /\ fbCalls = {}
    /\ alerted = <<>>

\* No capped list under test, and a localStorage that takes what is written.
InitNoStore ==
    /\ setItemThrows = FALSE
    /\ store = <<>>
    /\ storeCap = 0
    /\ storeLog = <<>>
    /\ storeShape = "array"
    /\ storeSlot = AbsentSlot
    /\ storeVisits = <<>>

\* The run lifecycle: the feedback boxes are not used.
Init ==
    /\ lsSessions \in SessionSlots
    /\ lsFeedback = AbsentSlot
    /\ InitAgent
    /\ runsLeft = MaxRuns
    /\ editsLeft = MaxEdits
    /\ feedbackLeft = 0
    /\ InitNoStore

\* ---------------------------------------------------------------- inputs
\* textarea onChange
setQuery(q) ==
    /\ editsLeft > 0
    /\ q # query
    /\ query' = q
    /\ editsLeft' = editsLeft - 1
    /\ UNCHANGED <<selectedModels, useMock, runVars, sessionVars, feedbackVars,
                   now, runs, runsLeft, storeVars>>

toggleModel(name) ==
    /\ editsLeft > 0
    /\ selectedModels' = Toggled(selectedModels, name)
    /\ editsLeft' = editsLeft - 1
    /\ UNCHANGED <<query, useMock, runVars, sessionVars, feedbackVars,
                   now, runs, runsLeft, storeVars>>

\* Demo Mode checkbox
toggleUseMock ==
    /\ editsLeft > 0
    /\ useMock' = ~useMock
    /\ editsLeft' = editsLeft - 1
    /\ UNCHANGED <<query, selectedModels, runVars, sessionVars, feedbackVars,
                   now, runs, runsLeft, storeVars>>

\* The clock advances.
Tick ==
    /\ now < MaxTime
    /\ now' = now + 1
    /\ UNCHANGED <<inputVars, runVars, sessionVars, feedbackVars, runsLeft, editsLeft,
                   runs, storeVars>>

\* ------------------------------------------------------------- runAgent
\* clearTimeout(t1); clearTimeout(t2); clearTimeout(t3)
KeepTimers(pending) == pending
clearTimeouts(pending) == {}

\* steps[k] of the runAgent call r (its title; note and time are fixed by
\* the call).
Step(r, k) == [run |-> r, step |-> k]

\* A runAgent call that has passed its finally block: nothing of what it
\* captured is read again.
Settled(call, status) ==
    [ status |-> status, query |-> <<>>, selectedModels |-> <<>>,
      useMock |-> TRUE, sessions |-> <<>>,
      timers |-> clearTimeouts(call.timers) ]

\* setTimeline([]); ...; setTimeline([steps[0]]) of the runAgent call r.
StartedTimelineAppended(r) == Append(timeline, Step(r, 1))
StartedTimeline(r) == <<Step(r, 1)>>

\* runAgent up to its await: validation, the state resets, steps[0], the
\* three timers and the remote call.
runAgent ==
    IF IsBlank(query)
    THEN /\ error' = ValidationMessage
         /\ UNCHANGED <<inputVars, loading, result, timeline, sessionVars,
                        feedbackVars, now, runs, runsLeft, editsLeft, storeVars>>
    ELSE /\ runsLeft > 0
         /\ runsLeft' = runsLeft - 1
         /\ error' = ""
         /\ loading' = TRUE
         /\ result' = <<>>
         /\ timeline' = StartedTimeline(Len(runs) + 1)
         /\ runs' = Append(runs,
                [ status |-> "pending", query |-> query,
                  selectedModels |-> selectedModels, useMock |-> useMock,
                  sessions |-> sessions, timers |-> {1, 2, 3} ])
         /\ UNCHANGED <<inputVars, sessionVars, feedbackVars, now, editsLeft,
                        storeVars>>

\* The Run Agent button: onClick={runAgent} disabled={loading}
RunAgentButton ==
    /\ ~loading
    /\ runAgent

\* Timer callback t_k of call r: setTimeline(s => [...s, steps[k]]).  The
\* delays are 300, 700 and 1100 ms, so the pending timers of one call fire
\* in that order.
TimerFired(r) ==
    /\ runs[r].timers # {}
    /\ LET k == Min(runs[r].timers) IN
        /\ timeline' = Append(timeline, Step(r, k + 1))
        /\ runs' = [runs EXCEPT ![r].timers = @ \ {k}]
    /\ UNCHANGED <<inputVars, loading, error, result, sessionVars,
                   feedbackVars, now, runsLeft, editsLeft, storeVars>>

\* The snapshot a resolved call builds.
SnapshotLiveInputs(call, data) ==
    [ id |-> now, when |-> now, query |-> query,
      selectedModels |-> selectedModels, response |-> data ]
Snapshot(call, data) ==
    [ id |-> now, when |-> now, query |-> call.query,
      selectedModels |-> call.selectedModels, response |-> data ]

\* runAgent after its await resolved with data: try body, then finally.
runAgentResolved(r, data) ==
    /\ runs[r].status = "pending"
    /\ result' = <<data>>
    /\ LET next == InsertFront(Snapshot(runs[r], data), runs[r].sessions,
                               SessionCap)
       IN /\ sessions' = next
          /\ lsSessions' = Written(lsSessions, next, setItemThrows)
    /\ loading' = FALSE
    /\ runs' = [runs EXCEPT ![r] = Settled(@, "resolved")]
    /\ UNCHANGED <<inputVars, error, timeline, feedbackVars, now, runsLeft, editsLeft,
                   storeVars>>

\* runAgent after its await rejected with an error of message msg: catch,
\* then finally.
LoadingAfterFailureKept == loading
LoadingAfterFailure == FALSE

runAgentRejected(r, msg) ==
    /\ runs[r].status = "pending"
    /\ error' = ErrorText(msg)
    /\ loading' = LoadingAfterFailure
    /\ runs' = [runs EXCEPT ![r] = Settled(@, "rejected")]
    /\ UNCHANGED <<inputVars, result, timeline, sessionVars, feedbackVars,
                   now, runsLeft, editsLeft, storeVars>>

\* Demo mode: mockRunAgent resolves from a 1200 ms timer set after t1..t3,
\* so after all three have fired; it never rejects.
MockResolved(r) ==
    /\ runs[r].useMock
    /\ runs[r].timers = {}
    /\ runAgentResolved(r, mockRunAgent(runs[r].query, runs[r].selectedModels))

\* runAgentAPI: the fetch settles at any time.
ApiResolved(r) ==
    /\ ~runs[r].useMock
    /\ \E data \in runAgentAPI(runs[r].query, runs[r].selectedModels) :
          runAgentResolved(r, data)

ApiRejected(r) ==
    /\ ~runs[r].useMock
    /\ \E msg \in RunFailures : runAgentRejected(r, msg)

\* ------------------------------------------------- Reset, restoreSession
\* The Reset button's onClick.
Reset ==
    /\ query' = <<>>
    /\ result' = <<>>
    /\ timeline' = <<>>
    /\ error' = ""
    /\ UNCHANGED <<selectedModels, useMock, loading, sessionVars,
                   feedbackVars, now, runs, runsLeft, editsLeft, storeVars>>

\* restoreSession(s), s an entry of the rendered sessions list.
restoreSession(s) ==
    /\ query' = s.query
    /\ selectedModels' = s.selectedModels
    /\ result' = <<s.response>>
    /\ error' = ""
    /\ timeline' = <<>>
    /\ UNCHANGED <<useMock, loading, sessionVars, feedbackVars, now, runs,
                   runsLeft, editsLeft, storeVars>>

\* The Restore button of an entry of the Session History list.  Entries that
\* differ only in id and when restore the same values.
Restorable ==
    { [ query |-> sessions[i].query,
        selectedModels |-> sessions[i].selectedModels,
        response |-> sessions[i].response ] : i \in 1..Len(sessions) }

RestoreButton == \E s \in Restorable : restoreSession(s)

\* restoreSession called with an entry the list no longer holds.
SessionIds == {sessions[i].id : i \in 1..Len(sessions)}
restoreSessionCall ==
    /\ EvictedSnapshot.id \notin SessionIds
    /\ restoreSession(EvictedSnapshot)

\* ------------------------------------------------------- submitFeedback
FeedbackItem(model, feedback) ==
    [ id |-> now, when |-> now, model |-> model, feedback |-> feedback ]

\* The three alert() texts.
ThanksAlert(model) == <<"Thanks! Feedback recorded for", model>>
NotSavedAlert == <<"Feedback not saved - unexpected response.">>
\* e?.message || "Failed to submit feedback."
FailedAlert(msg) == IF msg = "" THEN <<"Failed to submit feedback.">> ELSE <<msg>>

\* res?.status === "ok": the item is put in front of the feedbackHistory the
\* call captured, and saved.
FeedbackStored(model, feedback, captured) ==
    LET next == InsertFront(FeedbackItem(model, feedback), captured, FeedbackCap)
    IN /\ feedbackHistory' = next
       /\ lsFeedback' = Written(lsFeedback, next, setItemThrows)
       /\ alerted' = ThanksAlert(model)

\* Answers of sendFeedbackAPI's res.json() (their status), and the messages of
\* its rejections.
FeedbackAnswers == {"ok", "busy"}
FeedbackFailures == {"feedback failed: HTTP 500"}

\* res?.status === "ok"
IsOkAlways(answer) == TRUE
IsOk(answer) == answer = "ok"

\* setSubmitting(s => ({ ...s, [model]: true })) and, in finally, false.
SetFlag(s, model) == [s EXCEPT ![model] = TRUE]
KeepFlag(s, model) == s
ClearAllFlags(s, model) == [m \in DOMAIN s |-> FALSE]
ClearFlag(s, model) == [s EXCEPT ![model] = FALSE]

\* A Send click that returns before doing anything.
SendDropped ==
    /\ feedbackLeft > 0
    /\ feedbackLeft' = feedbackLeft - 1
    /\ UNCHANGED <<inputVars, runVars, sessionVars, feedbackHistory, lsFeedback,
                   submitting, fbCalls, alerted, now, runs, runsLeft, editsLeft,
                   storeVars>>

\* submitFeedback(model, feedback) up to its await (demo mode has none and
\* runs through its finally block at once).
submitFeedback(model, feedback) ==
    IF IsBlank(feedback)
    THEN SendDropped
    ELSE /\ feedbackLeft > 0
         /\ feedbackLeft' = feedbackLeft - 1
         /\ IF useMock
            THEN /\ FeedbackStored(model, feedback, feedbackHistory)
                 /\ submitting' = ClearFlag(SetFlag(submitting, model), model)
                 /\ UNCHANGED fbCalls
            ELSE /\ submitting' = SetFlag(submitting, model)
                 /\ fbCalls' = fbCalls \cup
                       {[ model |-> model, feedback |-> feedback,
                          feedbackHistory |-> feedbackHistory ]}
                 /\ UNCHANGED <<feedbackHistory, lsFeedback, alerted>>
         /\ UNCHANGED <<inputVars, runVars, sessionVars, now, runs, runsLeft,
                        editsLeft, storeVars>>

\* ModelFeedbackBox.handle with text in the box: const val = text.trim();
\* if (!val) return; onSubmit(model, val).
handle(model, text) ==
    LET val == Trim(text)
    IN IF val = <<>> THEN SendDropped ELSE submitFeedback(model, val)

\* The Send button of the box of a model of the shown result, disabled while
\* submitting[model].
FeedbackBoxSend(model, text) ==
    /\ result # <<>>
    /\ Includes(result[1].models, model)
    /\ ~submitting[model]
    /\ handle(model, text)

\* submitFeedback after sendFeedbackAPI resolved with {status: answer}: try
\* body, then finally.
FeedbackResolved(call, answer) ==
    /\ call \in fbCalls
    /\ IF IsOk(answer)
       THEN FeedbackStored(call.model, call.feedback, call.feedbackHistory)
       ELSE /\ alerted' = NotSavedAlert
            /\ UNCHANGED <<feedbackHistory, lsFeedback>>
    /\ submitting' = ClearFlag(submitting, call.model)
    /\ fbCalls' = fbCalls \ {call}
    /\ UNCHANGED <<inputVars, runVars, sessionVars, now, runs, feedbackLeft,
                   runsLeft, editsLeft, storeVars>>

\* submitFeedback after sendFeedbackAPI rejected with an error of message
\* msg: catch, then finally.
FeedbackRejected(call, msg) ==
    /\ call \in fbCalls
    /\ alerted' = FailedAlert(msg)
    /\ submitting' = ClearFlag(submitting, call.model)
    /\ fbCalls' = fbCalls \ {call}
    /\ UNCHANGED <<inputVars, runVars, sessionVars, feedbackHistory,
                   lsFeedback, now, runs, feedbackLeft, runsLeft, editsLeft,
                   storeVars>>

\* ----------------------------------------------------- the specifications
Inputs ==
    \/ \E q \in Queries : setQuery(q)
    \/ \E name \in ToggledNames : toggleModel(name)
    \/ toggleUseMock

Timers == \E r \in 1..Len(runs) : TimerFired(r)

RunSettles ==
    \/ \E r \in 1..Len(runs) : MockResolved(r)
    \/ \E r \in 1..Len(runs) : ApiResolved(r)
    \/ \E r \in 1..Len(runs) : ApiRejected(r)

Feedback ==
    \/ \E m \in ModelNames, text \in FeedbackTexts : FeedbackBoxSend(m, text)
    \/ \E call \in fbCalls, answer \in FeedbackAnswers : FeedbackResolved(call, answer)
    \/ \E call \in fbCalls, msg \in FeedbackFailures : FeedbackRejected(call, msg)

\* The run lifecycle as the page drives it.  Date.now() is read only to stamp
\* id and when of an entry, so the clock is left alone here.
Next ==
    \/ Inputs
    \/ RunAgentButton
    \/ Timers
    \/ RunSettles
    \/ Reset
    \/ RestoreButton

Spec == Init /\ [][Next]_vars

\* runAgent called as a function, whatever the Run Agent button shows.
NextHandler ==
    \/ Inputs
    \/ runAgent
    \/ Timers
    \/ RunSettles
    \/ Reset
    \/ RestoreButton

InitHandler ==
    /\ lsSessions \in SessionSlots
    /\ lsFeedback = AbsentSlot
    /\ InitAgent
    /\ runsLeft = MaxRuns
    /\ editsLeft = HandlerEdits
    /\ feedbackLeft = 0
    /\ InitNoStore

SpecHandler == InitHandler /\ [][NextHandler]_vars

\* restoreSession called as a function, whatever the Session History list
\* shows.
InitRestore ==
    /\ lsSessions \in SessionSlots
    /\ lsFeedback = AbsentSlot
    /\ InitAgent
    /\ runsLeft = RestoreRuns
    /\ editsLeft = RestoreEdits
    /\ feedbackLeft = 0
    /\ InitNoStore

NextRestore ==
    \/ Next
    \/ restoreSessionCall

SpecRestore == InitRestore /\ [][NextRestore]_vars

\* The whole component, feedback boxes included: a first visit (both slots
\* absent) or a visit after both lists were filled.
InitWhole ==
    /\ \/ lsSessions = AbsentSlot /\ lsFeedback = AbsentSlot
       \/ /\ lsSessions = saveToLS(OldSessions(SessionCap))
          /\ lsFeedback = saveToLS(OldFeedbacks(FeedbackCap))
    /\ InitAgent
    /\ runsLeft = AgentRuns
    /\ editsLeft = AgentEdits
    /\ feedbackLeft = AgentFeedback
    /\ InitNoStore

\* What is typed and toggled there.
AgentQueries == {<<" ", "b">>}
AgentToggled == {"Model A"}

AgentInputs ==
    \/ \E q \in AgentQueries : setQuery(q)
    \/ \E name \in AgentToggled : toggleModel(name)
    \/ toggleUseMock

NextAgent ==
    \/ AgentInputs
    \/ RunAgentButton
    \/ Timers
    \/ RunSettles
    \/ Reset
    \/ RestoreButton
    \/ Feedback

SpecAgent == InitWhole /\ [][NextAgent]_vars

\* --------------------------------------- the page, every call taken to its end
\* A first visit of the page in which the browser fires every timer that is
\* set and not cleared, every remote call settles (the fetch resolves or
\* rejects, the 1200 ms wait of the mock ends), and the continuation after
\* the await of a settled call is run.
InitLive ==
    /\ lsSessions = AbsentSlot
    /\ lsFeedback = AbsentSlot
    /\ InitAgent
    /\ runsLeft = LiveRuns
    /\ editsLeft = LiveEdits
    /\ feedbackLeft = LiveFeedback
    /\ InitNoStore

\* The runAgent call r passes its await.
RunSettled(r) ==
    /\ r \in 1..Len(runs)
    /\ MockResolved(r) \/ ApiResolved(r) \/ ApiRejected(r)

\* A submitFeedback call for model passes its await.
FeedbackSettled(model) ==
    \E call \in fbCalls :
        /\ call.model = model
        /\ \/ \E answer \in FeedbackAnswers : FeedbackResolved(call, answer)
           \/ \E msg \in FeedbackFailures : FeedbackRejected(call, msg)

EventLoop ==
    /\ \A r \in 1..LiveRuns : WF_vars(r \in 1..Len(runs) /\ TimerFired(r))
    /\ \A r \in 1..LiveRuns : WF_vars(RunSettled(r))
    /\ \A model \in ModelNames : WF_vars(FeedbackSettled(model))

SpecLive == InitLive /\ [][NextAgent]_vars /\ EventLoop

\* The whole page again, on a localStorage whose setItem throws for the whole
\* visit (its quota is used up, or the browser refuses storage) or never does.
InitQuota ==
    /\ \/ lsSessions = AbsentSlot /\ lsFeedback = AbsentSlot
       \/ /\ lsSessions = saveToLS(OldSessions(SessionCap))
          /\ lsFeedback = saveToLS(OldFeedbacks(FeedbackCap))
    /\ InitAgent
    /\ runsLeft = AgentRuns
    /\ editsLeft = AgentEdits
    /\ feedbackLeft = AgentFeedback
    /\ setItemThrows \in BOOLEAN
    /\ store = <<>>
    /\ storeCap = 0
    /\ storeLog = <<>>
    /\ storeShape = "array"
    /\ storeSlot = AbsentSlot
    /\ storeVisits = <<>>

SpecQuota == InitQuota /\ [][NextAgent]_vars

\* The feedback boxes of a restored result, in demo mode and against the
\* backend, on a later visit (the session list is full; the feedback list is
\* empty or full).
InitFeedback ==
    /\ lsSessions = saveToLS(OldSessions(SessionCap))
    /\ lsFeedback \in FeedbackSlots
    /\ InitAgent
    /\ runsLeft = 0
    /\ editsLeft = FeedbackEdits
    /\ feedbackLeft = FeedbackSends
    /\ InitNoStore

NextFeedback ==
    \/ toggleUseMock
    \/ RestoreButton
    \/ Reset
    \/ Tick
    \/ Feedback

SpecFeedback == InitFeedback /\ [][NextFeedback]_vars

\* ------------------------------------------ a capped list of any capacity
\* The list both histories are: loaded from its slot when the page loads,
\* [item, ...list].slice(0, cap) and saved on every insert; here for every
\* capacity 1..MaxCap and any items.
StoreItems == {"x", "y"}

\* The first page load: nothing saved yet.
InitStore ==
    /\ lsSessions = AbsentSlot
    /\ lsFeedback = AbsentSlot
    /\ InitAgent
    /\ runsLeft = 0
    /\ editsLeft = 0
    /\ feedbackLeft = 0
    /\ storeSlot = AbsentSlot
    /\ store = loadFromLS(storeSlot, ArrayValue(<<>>)).val
    /\ storeShape = loadFromLS(storeSlot, ArrayValue(<<>>)).kind
    /\ storeCap \in 1..MaxCap
    /\ storeLog = <<>>
    /\ storeVisits = <<>>
    /\ setItemThrows = FALSE

\* const next = [item, ...list].slice(0, cap); setList(next); saveToLS(k, next).
\* Spreading a value that is not iterable throws before anything is set (the
\* handler's catch takes it).
StoreInsert(item) ==
    /\ Len(storeLog) < storeCap + MaxExtra
    /\ storeShape = "array"
    /\ LET next == InsertFront(item, store, storeCap)
       IN /\ store' = next
          /\ storeSlot' = Written(storeSlot, next, setItemThrows)
    /\ storeLog' = Append(storeLog, item)
    /\ UNCHANGED <<inputVars, runVars, sessionVars, feedbackVars, now, runs,
                   runsLeft, editsLeft, storeCap, storeShape, storeVisits,
                   setItemThrows>>

\* The page is loaded again: useState(() => loadFromLS(k, [])).
StoreReload ==
    /\ Len(storeVisits) < MaxVisits
    /\ LET loaded == loadFromLS(storeSlot, ArrayValue(<<>>))
       IN /\ store' = loaded.val
          /\ storeShape' = loaded.kind
    /\ storeVisits' = Append(storeVisits, Len(storeLog))
    /\ UNCHANGED <<inputVars, runVars, sessionVars, feedbackVars, now, runs,
                   runsLeft, editsLeft, storeCap, storeLog, storeSlot,
                   setItemThrows>>

NextStore ==
    \/ \E item \in StoreItems : StoreInsert(item)
    \/ StoreReload

SpecStore == InitStore /\ [][NextStore]_vars

\* Texts something else left in the slot (another version of the page, the
\* user, another script of the origin): the empty text, "null", a JSON value
\* that is not an array, and an array text cut short.
ForeignTexts ==
    { <<>>, <<NullToken>>, <<ValueToken("x")>>, <<LBracket, ValueToken("x")>> }

ForeignWrite(text) ==
    /\ storeSlot' = [kind |-> "json", val |-> text]
    /\ UNCHANGED <<inputVars, runVars, sessionVars, feedbackVars, now, runs,
                   runsLeft, editsLeft, store, storeCap, storeLog, storeShape,
                   storeVisits, setItemThrows>>

NextLoad ==
    \/ NextStore
    \/ \E text \in ForeignTexts : ForeignWrite(text)

SpecLoad == InitStore /\ [][NextLoad]_vars

\* ===================================================== steps and run states
\* What a step did, read off the two states.
RunIds == 1..Len(runs)
Pending(r) == runs[r].status = "pending"
SettleStep(r) == Pending(r) /\ runs'[r].status # "pending"
ResolveStep(r) == Pending(r) /\ runs'[r].status = "resolved"
RejectStep(r) == Pending(r) /\ runs'[r].status = "rejected"
TimerStep(r) == runs'[r].timers # runs[r].timers /\ runs'[r].status = runs[r].status
SubmitStep == Len(runs') = Len(runs) + 1

\* The three run states named by the specification; a validation message is
\* not a failed run.
Running == loading
Succeeded == result # <<>>
Failed == error \notin {"", ValidationMessage}

C2_ResetReturnsToIdle ==
    [][/\ Reset =>
            /\ ~loading' /\ result' = <<>> /\ error' = "" /\ timeline' = <<>>
            /\ UNCHANGED <<sessions, lsSessions, feedbackHistory, lsFeedback>>
            /\ ~SubmitStep
       /\ \A r \in RunIds :
            (Pending(r) /\ timeline = <<>> /\ runs'[r] # runs[r]) =>
                UNCHANGED <<timeline, result>>]_vars

\* ================================================================== C3
\* C3: in every reachable state at most one of Running (loading), Succeeded
\* (a result is attached) and Failed (a run's error message is set) holds.
C3_ExactlyOneRunState ==
    /\ ~(Running /\ Succeeded)
    /\ ~(Running /\ Failed)
    /\ ~(Succeeded /\ Failed)

\* ================================================================== C4
\* C4: in every reachable state the session list holds at most SessionCap
\* entries and the feedback list at most FeedbackCap, and so do their slots.
C4_StoresWithinCapacity ==
    /\ Len(sessions) <= SessionCap
    /\ Len(feedbackHistory) <= FeedbackCap
    /\ Len(loadFromLS(lsSessions, ArrayValue(<<>>)).val) <= SessionCap
    /\ Len(loadFromLS(lsFeedback, ArrayValue(<<>>)).val) <= FeedbackCap

\* Both lists were full and each took one more entry.
C4_Witness ==
    /\ Len(sessions) = SessionCap
    /\ sessions[1].id >= 0
    /\ sessions[SessionCap] = OldSnapshot(SessionCap - 1)
    /\ Len(feedbackHistory) = FeedbackCap
    /\ feedbackHistory[1].id >= 0
    /\ feedbackHistory[FeedbackCap] = OldFeedback(FeedbackCap - 1)

\* ================================================================== C5
\* C5: for every capacity, once more items than the capacity were put in one
\* at a time, the list holds exactly the capacity's worth of the most
\* recently put items, newest first.
C5_KeepsNewestFirst ==
    Len(storeLog) > storeCap =>
        /\ Len(store) = storeCap
        /\ \A i \in 1..storeCap : store[i] = storeLog[Len(storeLog) + 1 - i]

\* Two items beyond a capacity above one, not all the same.
C5_Witness ==
    /\ storeCap > 1
    /\ Len(storeLog) >= storeCap + 2
    /\ storeLog[1] # storeLog[Len(storeLog)]
    /\ store[1] # store[2]

\* ================================================================== C6
\* C6: a click on Run Agent with a query that is empty after trimming sets
\* the validation message and starts nothing: loading, result, timeline, the
\* runAgent calls and their timers, the session list and its slot are as
\* before.
C6_BlankQueryRejected ==
    [][(Trim(query) = <<>> /\ RunAgentButton) =>
          /\ error' = ValidationMessage
          /\ UNCHANGED <<loading, result, timeline, runs, sessions, lsSessions>>]_vars

\* A whitespace-only query was refused while a result was shown.
C6_Witness ==
    /\ error = ValidationMessage
    /\ query = <<" ">>
    /\ result # <<>>
    /\ ~loading

\* ================================================================== C7
\* C7: the step in which a run resolves puts exactly one new snapshot at the
\* head of the session list (the entries before follow it, cut to SessionCap),
\* holding the query and the selection the runAgent call was made with and
\* the data shown as the result; no other step changes the session list.
C7_SnapshotOfSubmittedInputs ==
    [][/\ \A r \in RunIds :
            ResolveStep(r) =>
                /\ sessions' # <<>>
                /\ sessions'[1].query = runs[r].query
                /\ sessions'[1].selectedModels = runs[r].selectedModels
                /\ <<sessions'[1].response>> = result'
                /\ Tail(sessions') =
                      SubSeq(sessions, 1, Len(sessions') - 1)
                /\ Len(sessions') =
                      IF Len(sessions) < SessionCap THEN Len(sessions) + 1
                      ELSE SessionCap
       /\ (\A r \in RunIds : ~ResolveStep(r)) => sessions' = sessions]_vars

\* A run has resolved with its timeline and result still shown (no Reset or
\* Restore since it was started), the list was full before, and the new
\* snapshot holds neither the query nor the selection now in the inputs.
C7_Witness ==
    /\ Len(sessions) = SessionCap
    /\ sessions[1].id >= 0
    /\ sessions[2] = OldSnapshot(1)
    /\ \E r \in RunIds :
          /\ runs[r].status = "resolved"
          /\ timeline # <<>>
          /\ timeline[1] = Step(r, 1)
    /\ result = <<sessions[1].response>>
    /\ sessions[1].query # query
    /\ Trim(query) # <<>>
    /\ sessions[1].selectedModels # selectedModels

\* ================================================================== C8
\* C8: the step in which a run rejects sets a run error message, clears
\* loading (so the Run Agent button is enabled again) and leaves the session
\* list and its slot alone; a click on Run Agent in the failed state with a
\* non-blank query then starts a run.
C8_FailedRunRecoverable ==
    [][/\ \A r \in RunIds :
            RejectStep(r) =>
                /\ error' \in {ErrorText(msg) : msg \in RunFailures}
                /\ ~loading'
                /\ UNCHANGED <<sessions, lsSessions>>
       /\ (Failed /\ Trim(query) # <<>> /\ RunAgentButton) =>
                /\ SubmitStep
                /\ loading'
                /\ error' = ""
                /\ runs'[Len(runs')].status = "pending"]_vars

\* A run was started after an earlier one had failed.
C8_Witness ==
    \E r1, r2 \in RunIds :
        /\ r1 < r2
        /\ runs[r1].status = "rejected"
        /\ Trim(runs[r2].query) # <<>> \/ ~Pending(r2)

\* ================================================================== C9
\* The events of call r in a timeline.
EventsOf(r, tl) == SelectSeq(tl, LAMBDA e : e.run = r)
NoRunPending == \A r \in RunIds : ~Pending(r)

\* C9 as stated: once a run has settled no event of it is appended, and with
\* no run pending the timeline changes only by a click on Run Agent or Reset.
C9_TimelineKeptUntilSubmitOrReset ==
    [][/\ \A r \in RunIds :
            ~Pending(r) => EventsOf(r, timeline') = EventsOf(r, timeline)
                           \/ EventsOf(r, timeline') = <<>>
       /\ (NoRunPending /\ timeline' # timeline) =>
            (RunAgentButton \/ Reset)]_vars

\* C9 as amended: once a run has settled no event of it is appended, and with
\* no run pending the timeline changes only by a click on Run Agent, Reset or
\* a Restore button.
C9_TimelineKeptUntilSubmitResetOrRestore ==
    [][/\ \A r \in RunIds :
            ~Pending(r) => EventsOf(r, timeline') = EventsOf(r, timeline)
                           \/ EventsOf(r, timeline') = <<>>
       /\ (NoRunPending /\ timeline' # timeline) =>
            (RunAgentButton \/ Reset \/ RestoreButton)]_vars

\* A run settled while timers of it were pending, and its events are shown.
C9_Witness ==
    \E r \in RunIds :
        /\ ~Pending(r)
        /\ timeline # <<>>
        /\ timeline[1] = Step(r, 1)
        /\ Len(timeline) < 4

\* ================================================================= C10
\* C10: a Restore button, in any state, shows the entry's query, selection
\* and result, clears error and timeline, leaves the controller not loading,
\* starts no remote call and changes neither history list nor its slot; and a
\* run over which an entry was restored changes neither the result nor the
\* timeline afterwards.
C10_RestoreIsDisplayReplay ==
    [][/\ \A s \in Restorable :
            restoreSession(s) =>
                /\ query' = s.query
                /\ selectedModels' = s.selectedModels
                /\ result' = <<s.response>>
                /\ error' = "" /\ timeline' = <<>>
                /\ ~loading'
                /\ ~SubmitStep
                /\ UNCHANGED <<sessions, lsSessions, feedbackHistory, lsFeedback>>
       /\ \A r \in RunIds :
            (Pending(r) /\ result # <<>> /\ runs'[r] # runs[r]) =>
                UNCHANGED <<timeline, result>>]_vars

StoredAtHead(model, feedback) ==
    /\ feedbackHistory' # <<>>
    /\ feedbackHistory'[1].model = model
    /\ feedbackHistory'[1].feedback = feedback
    /\ Len(feedbackHistory') =
          IF Len(feedbackHistory) < FeedbackCap THEN Len(feedbackHistory) + 1
          ELSE FeedbackCap
    /\ Tail(feedbackHistory') = SubSeq(feedbackHistory, 1, Len(feedbackHistory') - 1)

\* C12: a feedback submission answered {status: "ok"} (by the backend, or at
\* once in demo mode) puts exactly one entry with the submitted model and text
\* at the head of the feedback list, and every entry that was in the list
\* before is still there behind it (up to FeedbackCap).
C12_OkFeedbackStoredOnce ==
    [][/\ \A c \in fbCalls :
            FeedbackResolved(c, "ok") => StoredAtHead(c.model, c.feedback)
       /\ \A m \in ModelNames, text \in FeedbackTexts :
            (useMock /\ Trim(text) # <<>> /\ FeedbackBoxSend(m, text)) =>
                StoredAtHead(m, Trim(text))]_vars

\* ================================================================= C13
\* C13: a feedback submission answered with anything but {status: "ok"}, or
\* rejected, stores nothing: feedback list and slot, session list and slot,
\* loading, error, result, timeline and the pending flags of the other models
\* are unchanged, and the call is over (no new call is made for it).
C13_FailedFeedbackStoresNothing ==
    [][\A c \in fbCalls :
          (\/ \E answer \in FeedbackAnswers \ {"ok"} : FeedbackResolved(c, answer)
           \/ \E msg \in FeedbackFailures : FeedbackRejected(c, msg)) =>
              /\ UNCHANGED <<feedbackHistory, lsFeedback, sessions, lsSessions,
                             loading, error, result, timeline>>
              /\ \A m \in ModelNames \ {c.model} : submitting'[m] = submitting[m]
              /\ fbCalls' = fbCalls \ {c}]_vars

\* A submission was answered "not ok" while one for another model was, and
\* still is, awaiting its answer.
C13_Witness ==
    /\ alerted = NotSavedAlert
    /\ fbCalls # {}
    /\ \A c \in fbCalls : submitting[c.model]
    /\ feedbackLeft = 0

\* ================================================================= C14
AllSpaces(text) == \A i \in 1..Len(text) : text[i] = " "

\* C14: a Send click with a text that is empty or all whitespace does
\* nothing: no call to the backend, nothing stored, no pending flag set, no
\* alert and no error.
C14_BlankFeedbackDropped ==
    [][\A m \in ModelNames, text \in FeedbackTexts :
          (AllSpaces(text) /\ FeedbackBoxSend(m, text)) =>
              UNCHANGED <<fbCalls, feedbackHistory, lsFeedback, submitting,
                          alerted, error>>]_vars

\* Every Send click so far was one with a whitespace-only text, in backend
\* mode.
C14_Witness ==
    /\ feedbackLeft = 0
    /\ ~useMock
    /\ result # <<>>
    /\ alerted = <<>>
    /\ fbCalls = {}
    /\ \A m \in ModelNames : ~submitting[m]

\* ================================================================= C15
StoreReloadStep == Len(storeVisits') = Len(storeVisits) + 1
HoldsArray(slot) == slot.kind = "json" /\ JSONparse(slot.val).kind = "array"

\* C15: a page load always leaves the list state an array, and an empty one
\* when the slot is absent, does not parse, or parses to something that is
\* not an array.
C15_LoadFallsBackToEmpty ==
    [][StoreReloadStep =>
          /\ storeShape' = "array"
          /\ ~HoldsArray(storeSlot) => store' = <<>>]_vars

\* ================================================================= C16
\* C16: a page load from the slot saveToLS has written for a list gives that
\* list again, entry by entry in the same order, whatever the list (any
\* capacity, any content up to the capacity).
C16_SaveThenLoadIsSameList ==
    [][(StoreReloadStep /\ storeShape = "array" /\ storeSlot = saveToLS(store)) =>
          /\ storeShape' = "array"
          /\ store' = store]_vars

\* The page was loaded again when the list was full, had dropped entries and
\* held different items.
C16_Witness ==
    /\ storeVisits # <<>>
    /\ storeVisits[1] > storeCap
    /\ storeCap > 1
    /\ Len(store) = storeCap
    /\ store[1] # store[2]
    /\ Len(storeLog) = storeVisits[1]

\* ================================================================= C17
InList(e, list) == \E i \in 1..Len(list) : list[i] = e

\* C17: when a submission is answered {status: "ok"} while the list holds an
\* entry of another model that was stored after this submission was made (the
\* two were under way at the same time), that entry is still in the list
\* afterwards, next to the new one.
C17_ConcurrentFeedbackBothKept ==
    [][\A c \in fbCalls :
          FeedbackResolved(c, "ok") =>
              \A i \in 1..Len(feedbackHistory) :
                  (/\ feedbackHistory[i].model # c.model
                   /\ ~InList(feedbackHistory[i], c.feedbackHistory)
                   /\ i < FeedbackCap) =>
                      InList(feedbackHistory[i], feedbackHistory')]_vars

\* ================================================================= C18
\* C18: in every reachable state the timeline is the first steps, in order,
\* of the runAgent call made last: at most four events, event i being step i
\* of that call.
C18_TimelineIsPrefixOfLatestRun ==
    /\ Len(timeline) <= 4
    /\ \A i \in 1..Len(timeline) : timeline[i] = Step(Len(runs), i)

\* ================================================================= C19
\* C19: a click on Run Agent with a query that is not blank starts a run in
\* that step: a new pending call, loading set, result and error cleared, and
\* the timeline exactly step 1 of the new call; whatever was shown before and
\* whatever the selection.
C19_AcceptedSubmitStartsRun ==
    [][(~AllSpaces(query) /\ RunAgentButton) =>
          /\ SubmitStep
          /\ runs'[Len(runs')].status = "pending"
          /\ loading'
          /\ result' = <<>>
          /\ error' = ""
          /\ timeline' = <<Step(Len(runs'), 1)>>]_vars

\* A run was started with an empty selection while a restored result was
\* shown.
C19_Witness ==
    /\ runs # <<>>
    /\ Pending(Len(runs))
    /\ runs[Len(runs)].selectedModels = <<>>
    /\ runs[Len(runs)].sessions # <<>>
    /\ loading
    /\ result = <<>>
    /\ timeline = <<Step(Len(runs), 1)>>

\* ================================================================= C20
InFlight(m, calls) == \E c \in calls : c.model = m

\* C20: the pending flag of a model is set exactly while a submission for it
\* awaits its answer, before and after every step; and a step that starts or
\* ends a submission for one model leaves the flags of the other models as
\* they were.
C20_PendingFlagPerParticipant ==
    [][/\ \A m \in ModelNames :
            /\ submitting[m] <=> InFlight(m, fbCalls)
            /\ submitting'[m] <=> InFlight(m, fbCalls')
       /\ \A p \in ModelNames :
            (\/ \E text \in FeedbackTexts : FeedbackBoxSend(p, text)
             \/ \E c \in fbCalls : c.model = p /\ c \notin fbCalls') =>
                \A q \in ModelNames \ {p} : submitting'[q] = submitting[q]]_vars

\* A submission for one model was answered and stored while one for another
\* model, made before that, still awaits its answer.
C20_Witness ==
    /\ feedbackHistory # <<>>
    /\ alerted = ThanksAlert(feedbackHistory[1].model)
    /\ \E c \in fbCalls :
          /\ c.model # feedbackHistory[1].model
          /\ ~InList(feedbackHistory[1], c.feedbackHistory)
          /\ submitting[c.model]
    /\ ~submitting[feedbackHistory[1].model]

\* ================================================================= C21
\* The slot holds an array text whose entries are those of the list, in order.
SameSequence(slot, list) == HoldsArray(slot) /\ JSONparse(slot.val).val = list

\* C21: a step that puts an entry into one of the two history lists leaves
\* that list's localStorage slot holding the same entries in the same order
\* as the list, and leaves the other list and the other slot as they were.
C21_SlotFollowsListAndListsIndependent ==
    [][/\ sessions' # sessions =>
             /\ SameSequence(lsSessions', sessions')
             /\ UNCHANGED <<feedbackHistory, lsFeedback>>
       /\ feedbackHistory' # feedbackHistory =>
             /\ SameSequence(lsFeedback', feedbackHistory')
             /\ UNCHANGED <<sessions, lsSessions>>]_vars

\* ================================================================= C23
\* The entries of one list have ids that differ two by two.
DistinctIds(list) ==
    \A i, j \in 1..Len(list) : i # j => list[i].id # list[j].id

\* C23: the entries of the session list have pairwise distinct ids and so
\* have those of the feedback list, whatever runs and feedback submissions
\* were made, also when Date.now() gave the same value to two of them.
C23_IdsPairwiseDistinct ==
    /\ DistinctIds(sessions)
    /\ DistinctIds(feedbackHistory)

\* ================================================================= C22
\* C22: when the timers fire and the remote calls settle, every runAgent call
\* that got past validation is followed by a state in which it has settled,
\* loading is false and a result or a run error is shown, and every pending
\* flag of a model that is set is cleared later.
C22_EverySubmitLeavesRunning ==
    /\ \A r \in 1..LiveRuns :
          (r \in RunIds /\ Pending(r)) ~>
              (r \in RunIds /\ ~Pending(r) /\ ~Running /\ (Succeeded \/ Failed))
    /\ \A model \in ModelNames : submitting[model] ~> ~submitting[model]

\* A run has resolved and its result is shown; a feedback call to the
\* backend was then rejected and reported, and no flag is left set.
C22_Witness ==
    /\ Len(runs) = LiveRuns
    /\ runs[LiveRuns].status = "resolved"
    /\ ~Running
    /\ Succeeded
    /\ feedbackLeft = 0
    /\ fbCalls = {}
    /\ \E msg \in FeedbackFailures : alerted = FailedAlert(msg)
    /\ \A model \in ModelNames : ~submitting[model]
====
